---- MODULE Spec2Model ----
(***************************************************************************)
(* Student roster manager (src/src/student.py): the StudentManager record  *)
(* store over one SQLite table, the StudentList per-field reader and the   *)
(* Grades aggregator.                                                      *)
(*                                                                         *)
(* Python strings are sequences of one-character strings, so strip, split, *)
(* join, str() and SQLite's byte-wise text comparison are computed and not *)
(* assumed.  A Python/SQLite value is a tagged record: a string, None/NULL,*)
(* an integer, or a float (held in hundredths).                            *)
(***************************************************************************)
EXTENDS Integers, Sequences, FiniteSets, TLC

VARIABLES
  table,   \* the committed rows of the student table, in rowid order
  file,    \* the text of the file export_data wrote last
  fresh,   \* the table of a second store, created empty for a re-import
  op,      \* the last call: its name, arguments and outcome
  pre,     \* the committed table as it was before the last call
  prev,    \* name, file text and exception of the call before the last one
  steps,   \* number of calls made so far
  leaked,  \* connections the last call opened and left open
  race     \* two concurrent insert_student calls: data, position, outcome

vars == <<table, file, fresh, op, pre, prev, steps, leaked, race>>

-----------------------------------------------------------------------------
(* Bounds of the model *)

\* Number of calls in one run.
MaxOps == 3

-----------------------------------------------------------------------------
(* Python / SQLite values *)

Str(s) == [t |-> "str", s |-> s]
None == [t |-> "none"]
Bool(b) == [t |-> "bool", b |-> b]
PyInt(n) == [t |-> "int", n |-> n]
PyFloat(h) == [t |-> "float", h |-> h]

IsStr(v) == v.t = "str"

\* The characters of the model in ASCII order (SQLite's BINARY collation
\* compares text byte by byte).
Alphabet ==
  << "\t", "\n", " ", "-",
     "0", "1", "2", "3", "4", "5", "6", "7", "8", "9",
     "A", "D", "E", "F", "G", "H", "I", "M", "N", "S", "_",
     "a", "b", "c", "d", "e", "f", "g", "h", "i", "l", "m", "n", "o", "r",
     "s", "t", "x", "y" >>

Ord(c) == CHOOSE i \in 1..Len(Alphabet) : Alphabet[i] = c

Whitespace == {"\t", "\n", " "}

Digits == <<"0", "1", "2", "3", "4", "5", "6", "7", "8", "9">>

IsDigit(c) == \E i \in 1..10 : Digits[i] = c

DigitVal(c) == (CHOOSE i \in 1..10 : Digits[i] = c) - 1

\* str.lower() on one character, for the letters that occur in column names.
LowerChar(c) ==
  CASE c = "A" -> "a" [] c = "D" -> "d" [] c = "E" -> "e" [] c = "F" -> "f"
    [] c = "G" -> "g" [] c = "H" -> "h" [] c = "I" -> "i" [] c = "M" -> "m"
    [] c = "N" -> "n" [] c = "S" -> "s" [] OTHER -> c

Lower(s) == [i \in 1..Len(s) |-> LowerChar(s[i])]

\* str.strip(): drops leading and trailing whitespace.
RECURSIVE LStrip(_)
LStrip(s) ==
  IF s # <<>> /\ Head(s) \in Whitespace THEN LStrip(Tail(s)) ELSE s

RECURSIVE RStrip(_)
RStrip(s) ==
  IF s # <<>> /\ s[Len(s)] \in Whitespace
    THEN RStrip(SubSeq(s, 1, Len(s) - 1))
    ELSE s

Strip(s) == RStrip(LStrip(s))

\* str.split(sep) for a one-character separator: the pieces between the
\* occurrences of sep, always at least one piece.
Split(s, sep) ==
  LET P == {i \in 1..Len(s) : s[i] = sep}
      n == Cardinality(P)
      Cut(k) ==
        IF k = 0 THEN 0
        ELSE IF k = n + 1 THEN Len(s) + 1
        ELSE CHOOSE p \in P : Cardinality({q \in P : q < p}) = k - 1
  IN [k \in 1..(n + 1) |-> SubSeq(s, Cut(k - 1) + 1, Cut(k) - 1)]

\* sep.join(parts)
RECURSIVE Join(_, _)
Join(parts, sep) ==
  IF parts = <<>> THEN <<>>
  ELSE IF Len(parts) = 1 THEN parts[1]
  ELSE parts[1] \o <<sep>> \o Join(Tail(parts), sep)

\* Iterating a text file: one line per "\n" (the terminator is left out here,
\* every reader strips it), plus a last unterminated line if there is one.
FileLines(text) ==
  LET pieces == Split(text, "\n")
  IN IF pieces[Len(pieces)] = <<>>
       THEN SubSeq(pieces, 1, Len(pieces) - 1)
       ELSE pieces

\* Decimal digits of a natural number.
RECURSIVE NatStr(_)
NatStr(n) ==
  IF n < 10 THEN <<Digits[n + 1]>>
  ELSE Append(NatStr(n \div 10), Digits[(n % 10) + 1])

\* Python str(value)
PyStr(v) ==
  CASE v.t = "str" -> v.s
    [] v.t = "none" -> <<"N", "o", "n", "e">>
    [] v.t = "int" -> IF v.n < 0 THEN <<"-">> \o NatStr(-v.n) ELSE NatStr(v.n)

\* Python truthiness of a value used in `if not x`.
Truthy(v) ==
  CASE v.t = "str" -> v.s # <<>>
    [] v.t = "none" -> FALSE
    [] v.t = "int" -> v.n # 0

\* Byte-wise comparison of two texts (memcmp, then length).
RECURSIVE TextLess(_, _)
TextLess(a, b) ==
  IF b = <<>> THEN FALSE
  ELSE IF a = <<>> THEN TRUE
  ELSE IF Head(a) = Head(b) THEN TextLess(Tail(a), Tail(b))
  ELSE Ord(Head(a)) < Ord(Head(b))

\* The leading run of digits of a text, as a number (0 when there is none).
RECURSIVE DigitsPrefix(_, _)
DigitsPrefix(s, acc) ==
  IF s # <<>> /\ IsDigit(Head(s))
    THEN DigitsPrefix(Tail(s), 10 * acc + DigitVal(Head(s)))
    ELSE acc

\* SQLite's text-to-number conversion as sum()/avg() apply it: leading
\* whitespace skipped, optional sign, the longest numeric prefix, else 0.
TextToNumber(s) ==
  LET u == LStrip(s)
  IN IF u # <<>> /\ Head(u) = "-"
       THEN -DigitsPrefix(Tail(u), 0)
       ELSE DigitsPrefix(u, 0)

\* True when the whole text is a decimal non-negative integer.
IsNatText(s) == s # <<>> /\ \A i \in 1..Len(s) : IsDigit(s[i])

-----------------------------------------------------------------------------
(* The student table: CREATE TABLE student (ID TEXT PRIMARY KEY, ... TEXT) *)

ID == <<"I", "D">>
Name == <<"N", "a", "m", "e">>
Gender == <<"G", "e", "n", "d", "e", "r">>
Enroll_Date == <<"E", "n", "r", "o", "l", "l", "_", "D", "a", "t", "e">>
English == <<"E", "n", "g", "l", "i", "s", "h">>
Math == <<"M", "a", "t", "h">>
History == <<"H", "i", "s", "t", "o", "r", "y">>
Science == <<"S", "c", "i", "e", "n", "c", "e">>
Arts == <<"A", "r", "t", "s">>

\* Columns in table-declaration order.
Columns ==
  <<ID, Name, Gender, Enroll_Date, English, Math, History, Science, Arts>>

ColumnSet == {Columns[i] : i \in 1..Len(Columns)}

\* SQLite resolves a column name case-insensitively; <<>> when there is none.
ResolveColumn(key) ==
  IF \E c \in ColumnSet : Lower(c) = Lower(key)
    THEN CHOOSE c \in ColumnSet : Lower(c) = Lower(key)
    ELSE <<>>

\* A value bound to a parameter of a TEXT column: text stays text, None is
\* NULL, a number is converted to its text by the column's TEXT affinity.
Bind(v) ==
  CASE v.t = "str" -> v
    [] v.t = "none" -> None
    [] v.t = "int" -> Str(PyStr(v))

\* A dict is a sequence of <<key, value>> pairs in insertion order.
DictKeys(d) == {d[i][1] : i \in 1..Len(d)}

DictHas(d, k) == k \in DictKeys(d)

\* d[k] when the key is present (the last pair wins, as dict(zip(...)) does).
DictAt(d, k) ==
  LET I == {i \in 1..Len(d) : d[i][1] = k}
      last == CHOOSE i \in I : \A j \in I : j <= i
  IN d[last][2]

\* d.get(k): None when the key is missing.
DictGet(d, k) == IF DictHas(d, k) THEN DictAt(d, k) ELSE None

\* Indexes of the rows selected by WHERE ID = ? (NULL equals nothing).
Matching(tbl, id) ==
  {i \in 1..Len(tbl) : Bind(id) # None /\ tbl[i][ID] = Bind(id)}

FirstOf(I) == CHOOSE i \in I : \A j \in I : i <= j

\* The outcome of a statement: the exception it raised ("" for none) and the
\* table as the connection then sees it.
Outcome(exc, tbl) == [exc |-> exc, tbl |-> tbl]

\* A table declared without the PRIMARY KEY: nothing ever conflicts.
KeyConflict_None(tbl, row) == FALSE

\* The PRIMARY KEY constraint on a TEXT column: no two rows share a non-NULL ID.
KeyConflict(tbl, row) ==
  row[ID] # None /\ \E i \in 1..Len(tbl) : tbl[i][ID] = row[ID]

\* A plain INSERT in place of INSERT OR IGNORE: a conflicting row raises.
SqlInsertOrIgnore_Plain(tbl, row) ==
  IF KeyConflict(tbl, row)
    THEN Outcome("IntegrityError", tbl)
    ELSE Outcome("", Append(tbl, row))

\* INSERT OR IGNORE INTO student ...: a conflicting row is silently skipped.
SqlInsertOrIgnore(tbl, row) ==
  IF KeyConflict(tbl, row) THEN Outcome("", tbl) ELSE Outcome("", Append(tbl, row))

\* INSERT INTO student ...: a conflicting row raises sqlite3.IntegrityError.
SqlInsert(tbl, row) ==
  IF KeyConflict(tbl, row)
    THEN Outcome("IntegrityError", tbl)
    ELSE Outcome("", Append(tbl, row))

\* A DELETE that lost its WHERE clause.
SqlDelete_NoWhere(tbl, id) == <<>>

\* DELETE FROM student WHERE ID = ?
SqlDelete(tbl, id) ==
  LET keep == {i \in 1..Len(tbl) : i \notin Matching(tbl, id)}
      F[i \in 0..Len(tbl)] ==
        IF i = 0 THEN <<>>
        ELSE IF i \in keep THEN Append(F[i - 1], tbl[i]) ELSE F[i - 1]
  IN F[Len(tbl)]

\* One row after SET key = ?, ... (for a repeated column the rightmost wins).
RECURSIVE SetColumns(_, _)
SetColumns(row, updates) ==
  IF updates = <<>> THEN row
  ELSE SetColumns(
         [row EXCEPT ![ResolveColumn(updates[1][1])] = Bind(updates[1][2])],
         Tail(updates))

\* UPDATE student SET k1 = ?, ... WHERE ID = ?
SqlUpdate(tbl, id, updates) ==
  LET hit == Matching(tbl, id)
      new == [i \in 1..Len(tbl) |->
                IF i \in hit THEN SetColumns(tbl[i], updates) ELSE tbl[i]]
      clash == \E i \in hit : \E j \in 1..Len(tbl) :
                 /\ j # i
                 /\ new[i][ID] # None
                 /\ new[i][ID] = new[j][ID]
  IN IF \E k \in DictKeys(updates) : ResolveColumn(k) = <<>>
       THEN Outcome("OperationalError", tbl)
     ELSE IF clash THEN Outcome("IntegrityError", tbl)
     ELSE Outcome("", new)

-----------------------------------------------------------------------------
(* StudentManager *)

PyDict(d) == [t |-> "dict", d |-> d]

\* What a call did: the exception it raised ("" for none) and the field a
\* ValueError names, the value it returned, the committed table it leaves,
\* and whether it executed an INSERT, UPDATE or DELETE statement.
Result(exc, field, ret, tbl, wrote) ==
  [exc |-> exc, field |-> field, ret |-> ret, tbl |-> tbl, wrote |-> wrote]

Returns(ret, tbl, wrote) == Result("", <<>>, ret, tbl, wrote)

\* An exception leaves the `with conn:` block: the transaction is rolled back.
Raises(exc, field, tbl, wrote) == Result(exc, field, None, tbl, wrote)

\* get_student_by_id: the first row with that ID as a dict, else None.
get_student_by_id(tbl, student_id) ==
  LET hit == Matching(tbl, student_id)
  IN IF hit = {} THEN None ELSE PyDict(tbl[FirstOf(hit)])

\* An existence check that never finds the row.
check_student_Never(tbl, student_id) == FALSE

\* check_student: SELECT ID ... WHERE ID = ?; fetchone() is not None.
check_student(tbl, student_id) == Matching(tbl, student_id) # {}

\* A validation loop that lets None through.
FirstInvalid_NoneAllowed(student_data) ==
  LET bad == {i \in 1..Len(student_data) :
                \/ student_data[i][1] \notin ColumnSet
                \/ student_data[i][2].t \notin {"str", "none"}}
  IN IF bad = {} THEN 0 ELSE FirstOf(bad)

\* The validation loop of insert_student: the index of the first item whose
\* key is no expected field or whose value is no str; 0 when all pass.
FirstInvalid(student_data) ==
  LET bad == {i \in 1..Len(student_data) :
                \/ student_data[i][1] \notin ColumnSet
                \/ ~IsStr(student_data[i][2])}
  IN IF bad = {} THEN 0 ELSE FirstOf(bad)

\* A parameter tuple with English and Math in each other's place.
InsertValues_Swapped(student_data) ==
  [c \in ColumnSet |->
     Bind(DictGet(student_data,
                  IF c = English THEN Math ELSE IF c = Math THEN English ELSE c))]

\* The parameter tuple of the INSERT: student_data.get(column) per column.
InsertValues(student_data) ==
  [c \in ColumnSet |-> Bind(DictGet(student_data, c))]

insert_student(tbl, student_data) ==
  LET bad == FirstInvalid(student_data)
  IN IF bad # 0
       THEN IF student_data[bad][1] \notin ColumnSet
              THEN Raises("KeyError", student_data[bad][1], tbl, FALSE)
              ELSE Raises("ValueError", student_data[bad][1], tbl, FALSE)
     ELSE IF ~DictHas(student_data, ID)
       THEN Raises("KeyError", ID, tbl, FALSE)
     ELSE IF check_student(tbl, DictAt(student_data, ID))
       THEN Raises("IntegrityError", <<>>, tbl, FALSE)
     ELSE LET out == SqlInsert(tbl, InsertValues(student_data))
          IN IF out.exc # ""
               THEN Raises(out.exc, <<>>, tbl, TRUE)
               ELSE Returns(None, out.tbl, TRUE)

delete_student(tbl, student_id) ==
  IF Matching(tbl, student_id) = {}
    THEN Returns(Bool(FALSE), tbl, FALSE)
    ELSE LET after == SqlDelete(tbl, student_id)
         IN Returns(Bool(Matching(after, student_id) = {}), after, TRUE)

\* StudentList._getattribute_: SELECT <attribute> ... WHERE ID = ?
GetAttribute(tbl, students_id, attribute) ==
  LET hit == Matching(tbl, students_id)
  IN IF hit = {} THEN None ELSE tbl[FirstOf(hit)][attribute]

\* The suffixes k for which StudentList has a property student_<k> that reads
\* one column as stored (student_enrollment parses a date and names no column;
\* it is outside the keys the model passes).
PropertyKeys == {Lower(c) : c \in ColumnSet \ {Enroll_Date}}

\* getattr(student, f"student_{key}", None)
StudentAttr(tbl, students_id, key) ==
  IF key \in PropertyKeys
    THEN GetAttribute(tbl, students_id, ResolveColumn(key))
    ELSE None

\* An update that goes to the UPDATE statement without the two guards on
\* the id.
update_student_Unchecked(tbl, student_id, updates) ==
  IF \A i \in 1..Len(updates) :
       PyStr(StudentAttr(tbl, student_id, updates[i][1]))
         = PyStr(updates[i][2])
    THEN Returns(Bool(FALSE), tbl, FALSE)
  ELSE LET out == SqlUpdate(tbl, student_id, updates)
       IN IF out.exc # ""
            THEN Raises(out.exc, <<>>, tbl, TRUE)
            ELSE Returns(Bool(TRUE), out.tbl, TRUE)

update_student(tbl, student_id, updates) ==
  IF ~Truthy(student_id) THEN Returns(Bool(FALSE), tbl, FALSE)
  ELSE IF ~Truthy(GetAttribute(tbl, student_id, ID))
    THEN Returns(Bool(FALSE), tbl, FALSE)
  ELSE IF \A i \in 1..Len(updates) :
            PyStr(StudentAttr(tbl, student_id, updates[i][1]))
              = PyStr(updates[i][2])
    THEN Returns(Bool(FALSE), tbl, FALSE)
  ELSE LET out == SqlUpdate(tbl, student_id, updates)
       IN IF out.exc # ""
            THEN Raises(out.exc, <<>>, tbl, TRUE)
            ELSE Returns(Bool(TRUE), out.tbl, TRUE)

\* A pairing that fills the missing trailing values with empty strings.
Zip_Padded(headers, values) ==
  [i \in 1..Len(headers) |->
     <<headers[i], Str(IF i <= Len(values) THEN values[i] ELSE <<>>)>>]

\* dict(zip(headers, values)): pairs up to the shorter of the two.
Zip(headers, values) ==
  LET n == IF Len(headers) < Len(values) THEN Len(headers) ELSE Len(values)
  IN [i \in 1..n |-> <<headers[i], Str(values[i])>>]

\* The loop of parse_data over the data lines, on the open transaction.
RECURSIVE ParseLines(_, _, _)
ParseLines(lines, headers, work) ==
  IF lines = <<>> THEN Outcome("", work)
  ELSE LET record == Zip(headers, Split(Strip(Head(lines)), "\t"))
       IN IF \E c \in ColumnSet : ~DictHas(record, c)
            THEN Outcome("KeyError", work)
            ELSE LET out == SqlInsertOrIgnore(
                              work, [c \in ColumnSet |-> DictAt(record, c)])
                 IN IF out.exc # ""
                      THEN out
                      ELSE ParseLines(Tail(lines), headers, out.tbl)

\* A parse_data that commits after every line, so the lines before a failing
\* one stay stored.
parse_data_CommitPerLine(tbl, text) ==
  LET lines == FileLines(text)
      headers == Split(Strip(IF lines = <<>> THEN <<>> ELSE Head(lines)), "\t")
      data == IF lines = <<>> THEN <<>> ELSE Tail(lines)
      out == ParseLines(data, headers, tbl)
  IN IF out.exc # ""
       THEN Raises(out.exc, <<>>, out.tbl, out.tbl # tbl)
       ELSE Returns(None, out.tbl, out.tbl # tbl)

\* parse_data on the text of the file: one commit after the last line, none
\* when a line raises.  An INSERT is executed as soon as the first data line
\* has all nine fields.
parse_data(tbl, text) ==
  LET lines == FileLines(text)
      headers == Split(Strip(IF lines = <<>> THEN <<>> ELSE Head(lines)), "\t")
      data == IF lines = <<>> THEN <<>> ELSE Tail(lines)
      out == ParseLines(data, headers, tbl)
      executed ==
        /\ data # <<>>
        /\ \A c \in ColumnSet :
             DictHas(Zip(headers, Split(Strip(Head(data)), "\t")), c)
  IN IF out.exc # ""
       THEN Raises(out.exc, <<>>, tbl, executed)
       ELSE Returns(None, out.tbl, executed)

\* One exported line: "\t".join(str(col) for col in row) + "\n"
ExportLine(row) ==
  Join([i \in 1..Len(Columns) |-> PyStr(row[Columns[i]])], "\t") \o <<"\n">>

RECURSIVE ExportRows(_)
ExportRows(tbl) ==
  IF tbl = <<>> THEN <<>> ELSE ExportLine(Head(tbl)) \o ExportRows(Tail(tbl))

\* export_data: the text written to the file, header line first.
export_data(tbl) == Join(Columns, "\t") \o <<"\n">> \o ExportRows(tbl)

-----------------------------------------------------------------------------
(* Grades *)

\* The non-NULL values of a column, which the aggregates range over.
ColumnTexts(tbl, subject) ==
  {tbl[i][ResolveColumn(subject)].s :
     i \in {j \in 1..Len(tbl) : tbl[j][ResolveColumn(subject)] # None}}

\* SELECT MAX(subject): the greatest text in byte order; NULL when none.
get_max_score(tbl, subject) ==
  LET S == ColumnTexts(tbl, subject)
  IN IF S = {} THEN None
     ELSE Str(CHOOSE m \in S : \A x \in S : x = m \/ TextLess(x, m))

\* SELECT MIN(subject): the least text in byte order; NULL when none.
get_min_score(tbl, subject) ==
  LET S == ColumnTexts(tbl, subject)
  IN IF S = {} THEN None
     ELSE Str(CHOOSE m \in S : \A x \in S : x = m \/ TextLess(m, x))

\* round(sum / cnt, 2) in hundredths, ties to even.
RoundedHundredths(sum, cnt) ==
  LET q == (100 * sum) \div cnt
      r == (100 * sum) % cnt
  IN IF 2 * r > cnt THEN q + 1
     ELSE IF 2 * r = cnt THEN q + (q % 2)
     ELSE q

\* SELECT AVG(subject): the mean of the non-NULL values as numbers.
get_avg_score(tbl, subject) ==
  LET I == {j \in 1..Len(tbl) : tbl[j][ResolveColumn(subject)] # None}
      F[i \in 0..Len(tbl)] ==
        IF i = 0 THEN 0
        ELSE IF i \in I
          THEN F[i - 1] + TextToNumber(tbl[i][ResolveColumn(subject)].s)
          ELSE F[i - 1]
  IN IF I = {} THEN None ELSE PyFloat(RoundedHundredths(F[Len(tbl)], Cardinality(I)))

-----------------------------------------------------------------------------
(* The calls the model makes *)

T(s) == Str(s)

\* A complete student_data dict; the fields the calls do not vary are fixed.
Student(id, name, math, arts) ==
  << <<ID, id>>, <<Name, name>>, <<Gender, T(<<"F">>)>>,
     <<Enroll_Date, T(<<"9", "-", "1">>)>>, <<English, T(<<"7", "8">>)>>,
     <<Math, math>>, <<History, T(<<"8", "6">>)>>,
     <<Science, T(<<"9", "5">>)>>, <<Arts, arts>> >>

NoneText == <<"N", "o", "n", "e">>

InsertInputs ==
  { Student(T(<<"1">>), T(<<"a">>), T(<<"9">>), T(<<"8", "8">>)),
    Student(T(<<"2">>), T(<<"b">>), T(<<"8", "8">>), T(<<"9", "0">>)),
    Student(T(<<"2">>), T(<<"x", " ", "y">>), T(<<"1", "0", "0">>), T(<<"7">>)),
    Student(T(<<"1">>), T(<<" ", "a">>), T(<<"a", "b", "c">>), T(<<>>)),
    Student(T(<<"2">>), T(NoneText), T(<<"x">>), T(<<"8", " ">>)),
    << <<ID, T(<<"2">>)>>, <<Name, T(<<"b">>)>> >>,
    Student(T(<<"1">>), None, T(<<"9">>), T(<<"8", "8">>)),
    Student(T(<<"2">>), T(<<"b">>), PyInt(95), T(<<"9", "0">>)) }

StudentIds == {T(<<"1">>), T(<<"2">>), T(<<"3">>)}

\* The ids update_student is called with: the empty id as well.
UpdateIds == StudentIds \cup {T(<<>>)}

UpdateInputs ==
  { << <<English, T(<<"7", "8">>)>> >>,
    << <<English, T(<<"8", "5">>)>> >>,
    << <<Name, T(NoneText)>> >>,
    << <<Math, T(<<"9">>)>>, <<Arts, T(<<"8", "8">>)>> >>,
    << <<Lower(Name), T(<<"a">>)>> >>,
    << <<Math, None>> >>,
    << <<ID, T(<<"2">>)>> >> }

Subjects == {Math, Arts}

\* The text of a tab-separated file given its lines as lists of fields.
RECURSIVE FileText(_)
FileText(lines) ==
  IF lines = <<>> THEN <<>>
  ELSE Join(Head(lines), "\t") \o <<"\n">> \o FileText(Tail(lines))

Fields(id, name, math, arts) ==
  <<id, name, <<"M">>, <<"9", "-", "1">>, <<"7", "7">>, math, <<"8", "6">>,
    <<"9", "5">>, arts>>

\* Well-formed files: a header naming the nine columns, nine values a line.
WellFormedFiles ==
  { FileText(<< Columns,
                Fields(<<"1">>, <<"w">>, <<"9", "3">>, <<"8", "8">>),
                Fields(<<"2">>, <<"c">>, <<"7", "7">>, <<"9", "1">>) >>),
    FileText(<< Columns,
                Fields(<<"2">>, <<"d">>, <<"9", "9">>, <<"8", "0">>),
                Fields(<<"2">>, <<"e">>, <<"8">>, <<"8", "1">>) >>) }

\* A file whose second data line lacks its trailing fields.
ShortLineFile ==
  FileText(<< Columns,
              Fields(<<"1">>, <<"w">>, <<"9", "3">>, <<"8", "8">>),
              <<<<"2">>, <<"c">>, <<"M">>>> >>)

\* A file whose header names a tenth column that its data line has no value
\* for.
ExtraHeaderFile ==
  FileText(<< Append(Columns, <<"x">>),
              Fields(<<"1">>, <<"w">>, <<"9", "3">>, <<"8", "8">>) >>)

InputFiles == WellFormedFiles \cup {ShortLineFile, ExtraHeaderFile}

NoCall ==
  [name |-> "", id |-> None, data |-> <<>>, text |-> <<>>, subject |-> <<>>,
   exc |-> "", field |-> <<>>, ret |-> None, wrote |-> FALSE]

Call(name, id, data, text, subject, res) ==
  [name |-> name, id |-> id, data |-> data, text |-> text, subject |-> subject,
   exc |-> res.exc, field |-> res.field, ret |-> res.ret, wrote |-> res.wrote]

Summary(call) == [name |-> call.name, text |-> call.text, exc |-> call.exc]

\* The number of times a call runs self.connect(): once per `with` block it
\* enters.  insert_student connects in check_student and again for its INSERT,
\* and not at all when validation fails; update_student returns before
\* connecting when the id is falsy; a store created on a new database connects
\* in create_tables before it parses; Grades uses the caller's connection.
ConnectionsOpened(call) ==
  CASE call.name = "insert_student" ->
         IF call.exc \in {"ValueError", "KeyError"} THEN 0
         ELSE IF call.exc = "IntegrityError" /\ ~call.wrote THEN 1
         ELSE 2
    [] call.name = "update_student" -> IF Truthy(call.id) THEN 1 ELSE 0
    [] call.name = "parse_fresh" -> 2
    [] call.name \in {"create_tables", "parse_data", "get_student_by_id",
                      "delete_student", "export_data"} -> 1
    [] OTHER -> 0

\* The number of those connections the call closes.  Leaving the block
\* `with self.connect() as conn:` commits or rolls back the transaction and
\* leaves the connection open, and no operation calls close().
ConnectionsClosed(call) == 0

\* The two callers of the concurrent insert_student calls.
Callers == {"A", "B"}

\* No concurrent calls are under way.
RaceIdle ==
  [data |-> [p \in Callers |-> <<>>],
   pc |-> [p \in Callers |-> "idle"],
   seen |-> [p \in Callers |-> FALSE],
   exc |-> [p \in Callers |-> ""]]

\* What every call does to the bookkeeping of the model.
Record(call) ==
  /\ steps < MaxOps
  /\ steps' = steps + 1
  /\ op' = call
  /\ pre' = table
  /\ prev' = Summary(op)
  /\ leaked' = ConnectionsOpened(call) - ConnectionsClosed(call)
  /\ UNCHANGED race

Init ==
  /\ table = <<>>
  /\ file = <<>>
  /\ fresh = <<>>
  /\ op = NoCall
  /\ pre = <<>>
  /\ prev = Summary(NoCall)
  /\ steps = 0
  /\ race = RaceIdle
  /\ leaked = ConnectionsOpened([NoCall EXCEPT !.name = "create_tables"])
                - ConnectionsClosed([NoCall EXCEPT !.name = "create_tables"])

Insert ==
  \E d \in InsertInputs :
    LET res == insert_student(table, d)
    IN /\ Record(Call("insert_student", None, d, <<>>, <<>>, res))
       /\ table' = res.tbl
       /\ UNCHANGED <<file, fresh>>

Update ==
  \E id \in UpdateIds, u \in UpdateInputs :
    LET res == update_student(table, id, u)
    IN /\ Record(Call("update_student", id, u, <<>>, <<>>, res))
       /\ table' = res.tbl
       /\ UNCHANGED <<file, fresh>>

Delete ==
  \E id \in StudentIds :
    LET res == delete_student(table, id)
    IN /\ Record(Call("delete_student", id, <<>>, <<>>, <<>>, res))
       /\ table' = res.tbl
       /\ UNCHANGED <<file, fresh>>

Import ==
  \E text \in InputFiles :
    LET res == parse_data(table, text)
    IN /\ Record(Call("parse_data", None, <<>>, text, <<>>, res))
       /\ table' = res.tbl
       /\ UNCHANGED <<file, fresh>>

Export ==
  /\ Record(Call("export_data", None, <<>>, export_data(table), <<>>,
                 Returns(None, table, FALSE)))
  /\ file' = export_data(table)
  /\ UNCHANGED <<table, fresh>>

\* A new StudentManager on a new database parses the file just exported.
ImportFresh ==
  /\ op.name = "export_data"
  /\ LET res == parse_data(<<>>, file)
     IN /\ Record(Call("parse_fresh", None, <<>>, file, <<>>, res))
        /\ fresh' = res.tbl
  /\ UNCHANGED <<table, file>>

Fetch ==
  \E id \in StudentIds :
    /\ Record(Call("get_student_by_id", id, <<>>, <<>>, <<>>,
                   Returns(get_student_by_id(table, id), table, FALSE)))
    /\ UNCHANGED <<table, file, fresh>>

MaxScore ==
  \E subject \in Subjects :
    /\ Record(Call("get_max_score", None, <<>>, <<>>, subject,
                   Returns(get_max_score(table, subject), table, FALSE)))
    /\ UNCHANGED <<table, file, fresh>>

MinScore ==
  \E subject \in Subjects :
    /\ Record(Call("get_min_score", None, <<>>, <<>>, subject,
                   Returns(get_min_score(table, subject), table, FALSE)))
    /\ UNCHANGED <<table, file, fresh>>

AvgScore ==
  \E subject \in Subjects :
    /\ Record(Call("get_avg_score", None, <<>>, <<>>, subject,
                   Returns(get_avg_score(table, subject), table, FALSE)))
    /\ UNCHANGED <<table, file, fresh>>

Next ==
  \/ Insert
  \/ Update
  \/ Delete
  \/ Import
  \/ Export
  \/ ImportFresh
  \/ Fetch
  \/ MaxScore
  \/ MinScore
  \/ AvgScore

Spec == Init /\ [][Next]_vars

\* The runtime finalizes the connection objects nothing refers to any more,
\* which closes them; when it does so is not the operation's doing.
Finalize ==
  /\ leaked > 0
  /\ leaked' = 0
  /\ UNCHANGED <<table, file, fresh, op, pre, prev, steps, race>>

NextConn == Next \/ Finalize

\* The calls together with the runtime's finalizer.
SpecConn == Init /\ [][NextConn]_vars

-----------------------------------------------------------------------------
(* Two concurrent insert_student calls, each on its own connections *)

\* The records the concurrent calls carry: the all-string ones.
RaceInputs == {d \in InsertInputs : FirstInvalid(d) = 0}

\* The tables the calls start from: empty, or holding one row.
RaceTables ==
  { <<>>,
    <<InsertValues(Student(T(<<"2">>), T(<<"b">>), T(<<"8", "8">>),
                           T(<<"9", "0">>)))>> }

InitRace ==
  /\ table \in RaceTables
  /\ pre = table
  /\ file = <<>>
  /\ fresh = <<>>
  /\ op = NoCall
  /\ prev = Summary(NoCall)
  /\ steps = 0
  /\ leaked = 0
  /\ \E da \in RaceInputs, db \in RaceInputs :
       race = [RaceIdle EXCEPT !.data = [p \in Callers |->
                                          IF p = "A" THEN da ELSE db],
                               !.pc = [p \in Callers |-> "start"]]

Stays == UNCHANGED <<file, fresh, op, pre, prev, steps, leaked>>

\* Validation, then check_student on a connection of its own: the call sees
\* the committed rows and raises IntegrityError when the ID is among them.
RaceCheck ==
  \E p \in Callers :
    /\ race.pc[p] = "start"
    /\ LET found == check_student(table, DictAt(race.data[p], ID))
       IN race' = [race EXCEPT !.seen[p] = found,
                               !.exc[p] = IF found THEN "IntegrityError" ELSE "",
                               !.pc[p] = IF found THEN "done" ELSE "checked"]
    /\ UNCHANGED table
    /\ Stays

\* cursor.execute of the INSERT on a second connection.  It opens the write
\* transaction, which SQLite grants to one connection at a time: while the
\* other call's INSERT is uncommitted this one waits in the busy handler.
\* The PRIMARY KEY is checked against the committed rows.
RaceExecute ==
  \E p \in Callers :
    /\ race.pc[p] = "checked"
    /\ \A q \in Callers : race.pc[q] # "inserted"
    /\ LET out == SqlInsert(table, InsertValues(race.data[p]))
       IN race' = [race EXCEPT !.exc[p] = out.exc,
                               !.pc[p] = IF out.exc # "" THEN "done"
                                         ELSE "inserted"]
    /\ UNCHANGED table
    /\ Stays

\* conn.commit(): the inserted row becomes visible to every connection.
RaceCommit ==
  \E p \in Callers :
    /\ race.pc[p] = "inserted"
    /\ table' = SqlInsert(table, InsertValues(race.data[p])).tbl
    /\ race' = [race EXCEPT !.pc[p] = "done"]
    /\ Stays

NextRace == RaceCheck \/ RaceExecute \/ RaceCommit

SpecRace == InitRace /\ [][NextRace]_vars

-----------------------------------------------------------------------------
(* Properties of update_student *)

RowSet(tbl) == {tbl[i] : i \in 1..Len(tbl)}

\* Some row of the table has this ID.
Present(tbl, id) == \E r \in RowSet(tbl) : r[ID] = id

\* The last call was update_student on an id that was in the table, with a
\* non-empty set of updates that name columns other than ID.
UpdateOfExisting ==
  /\ op.name = "update_student"
  /\ Present(pre, op.id)
  /\ op.data # <<>>
  /\ DictKeys(op.data) \subseteq (ColumnSet \ {ID})

\* The value the row of the updated id held in a column before the call.
StoredBefore(c) == pre[FirstOf(Matching(pre, op.id))][c]

SameAsStored(i) ==
  PyStr(StoredBefore(op.data[i][1])) = PyStr(op.data[i][2])

\* C1: an update of an existing id whose proposed values all equal, as
\* strings, the values stored for that row returns False, executes no
\* write, and leaves the whole table as it was.
C1_IdenticalUpdateIsNoChange ==
  (UpdateOfExisting /\ \A i \in 1..Len(op.data) : SameAsStored(i))
    => /\ op.exc = ""
       /\ op.ret = Bool(FALSE)
       /\ ~op.wrote
       /\ table = pre

\* C2: an update of an existing id in which some proposed value differs from
\* the stored one returns True; fetching the id then shows every given field
\* at its proposed value, and the fields not named and the other rows are as
\* before.
C2_DifferingUpdateIsApplied ==
  (UpdateOfExisting /\ \E i \in 1..Len(op.data) : ~SameAsStored(i))
    => /\ op.exc = ""
       /\ op.ret = Bool(TRUE)
       /\ get_student_by_id(table, op.id) # None
       /\ \A c \in ColumnSet :
            get_student_by_id(table, op.id).d[c]
              = IF DictHas(op.data, c) THEN Bind(DictAt(op.data, c))
                ELSE StoredBefore(c)
       /\ Len(table) = Len(pre)
       /\ \A i \in 1..Len(pre) :
            i \notin Matching(pre, op.id) => table[i] = pre[i]

-----------------------------------------------------------------------------
(* Properties of insert_student *)

IsInsert == op.name = "insert_student"

AllStrings(d) == \A i \in 1..Len(d) : IsStr(d[i][2])

\* The key of the first value of the dict that is no string.
FirstNonString(d) ==
  d[FirstOf({i \in 1..Len(d) : ~IsStr(d[i][2])})][1]

\* C3: an insert of a record with a value that is no string raises the
\* ValueError naming that field and leaves the table as it was, whether or not
\* the record's ID is already in the table.
C3_InvalidTypeRejected ==
  (IsInsert /\ ~AllStrings(op.data))
    => /\ op.exc = "ValueError"
       /\ op.field = FirstNonString(op.data)
       /\ ~op.wrote
       /\ table = pre

\* An invalid record whose ID was already in the table has been rejected.
C3_Witness ==
  /\ IsInsert
  /\ ~AllStrings(op.data)
  /\ Present(pre, DictAt(op.data, ID))
  /\ op.exc = "ValueError"

\* C4: an insert of an all-string record whose ID is already in the table
\* raises IntegrityError before any INSERT is executed, and the table,
\* the row with that ID included, is as it was.
C4_DuplicateRejected ==
  (/\ IsInsert
   /\ AllStrings(op.data)
   /\ DictHas(op.data, ID)
   /\ Present(pre, DictAt(op.data, ID)))
    => /\ op.exc = "IntegrityError"
       /\ ~op.wrote
       /\ table = pre

\* A duplicate whose other values differ from the stored row has been rejected.
C4_Witness ==
  /\ IsInsert
  /\ op.exc = "IntegrityError"
  /\ get_student_by_id(table, DictAt(op.data, ID)).d[Name]
       # DictAt(op.data, Name)

\* The record has all nine fields, all strings, and its ID was not in the table.
NewCompleteRecord ==
  /\ IsInsert
  /\ DictKeys(op.data) = ColumnSet
  /\ AllStrings(op.data)
  /\ ~Present(pre, DictAt(op.data, ID))

\* C5: an insert of nine strings under an ID not yet in the table succeeds
\* and adds exactly one row; fetching that ID returns exactly the nine
\* inserted values, and no other row changes.
C5_InsertThenFetch ==
  NewCompleteRecord
    => /\ op.exc = ""
       /\ Len(table) = Len(pre) + 1
       /\ SubSeq(table, 1, Len(pre)) = pre
       /\ get_student_by_id(table, DictAt(op.data, ID))
            = PyDict([c \in ColumnSet |-> DictAt(op.data, c)])

\* A record with a non-numeric score has been inserted beside another row.
C5_Witness ==
  /\ NewCompleteRecord
  /\ op.exc = ""
  /\ ~IsNatText(DictAt(op.data, Math).s)
  /\ pre # <<>>

-----------------------------------------------------------------------------
(* Properties of delete_student *)

IsDelete == op.name = "delete_student"

\* C6: deleting an id that is in the table returns True, the id is then
\* absent and the other rows are unchanged; deleting an id that is not in the
\* table returns False and leaves the table as it was.
C6_Delete ==
  IsDelete
    => /\ op.exc = ""
       /\ IF Present(pre, op.id)
            THEN /\ op.ret = Bool(TRUE)
                 /\ get_student_by_id(table, op.id) = None
                 /\ Len(table) = Len(pre) - 1
                 /\ RowSet(table)
                      = {r \in RowSet(pre) : r[ID] # Bind(op.id)}
            ELSE /\ op.ret = Bool(FALSE)
                 /\ table = pre

\* One of two rows has been deleted.
C6_Witness ==
  /\ IsDelete
  /\ op.ret = Bool(TRUE)
  /\ Len(pre) = 2
  /\ Len(table) = 1

-----------------------------------------------------------------------------
(* Properties of parse_data and export_data *)

\* The last two calls were parse_data on the same well-formed file, and the
\* first of them raised no error.
SecondImport ==
  /\ op.name = "parse_data"
  /\ op.text \in WellFormedFiles
  /\ prev.name = "parse_data"
  /\ prev.text = op.text
  /\ prev.exc = ""

\* The IDs on the data lines of a well-formed file.
FileIds(text) ==
  {Str(Split(FileLines(text)[i], "\t")[1]) : i \in 2..Len(FileLines(text))}

\* C7: parsing the same well-formed file a second time raises no error and
\* leaves the table exactly as the first import left it: no row is added and
\* no stored row is overwritten by the file's values.
C7_ImportTwice ==
  SecondImport
    => /\ op.exc = ""
       /\ table = pre

\* The rows the data lines of a well-formed file describe.
FileRows(text) ==
  {[c \in ColumnSet |->
      DictAt(Zip(Columns, Split(FileLines(text)[i], "\t")), c)] :
     i \in 2..Len(FileLines(text))}

\* A second import has met a stored row whose ID is in the file and whose
\* values are not those of any line of the file.
C7_Witness ==
  /\ SecondImport
  /\ op.exc = ""
  /\ \E r \in RowSet(table) :
       /\ r[ID] \in FileIds(op.text)
       /\ r \notin FileRows(op.text)

\* C8: export_data followed by parse_data of the exported file into a new,
\* empty store raises no error and yields exactly the rows of the exporting
\* table, with identical values.
C8_RoundTrip ==
  op.name = "parse_fresh"
    => /\ op.exc = ""
       /\ RowSet(fresh) = RowSet(table)

-----------------------------------------------------------------------------
(* Properties of Grades *)

\* A stored value that reads as a number: optional surrounding whitespace
\* around decimal digits.
Usable(v) == v # None /\ IsNatText(Strip(v.s))

ColumnValues(tbl, subject) == {tbl[i][subject] : i \in 1..Len(tbl)}

\* The number a result stands for, whether it is returned as a number or as
\* the text of one (the tests read it with int(...)); -1 when it is neither.
AsNumber(v) ==
  CASE v.t = "int" -> v.n
    [] v.t = "str" -> IF IsNatText(v.s) THEN TextToNumber(v.s) ELSE -1
    [] OTHER -> -1

\* The last call was an aggregate over a non-empty table whose values in the
\* subject column are all decimal texts of non-negative integers.
ScoresAreNumbers ==
  /\ table # <<>>
  /\ \A v \in ColumnValues(table, op.subject) : v # None /\ IsNatText(v.s)

Scores == {TextToNumber(v.s) : v \in ColumnValues(table, op.subject)}

\* C9: over decimal scores, get_max_score returns the numerically largest
\* stored score and get_min_score the numerically smallest.  (Stated on the
\* number the result stands for, so a result returned as text still counts.)
C9_NumericExtremes ==
  /\ (op.name = "get_max_score" /\ ScoresAreNumbers)
       => \A n \in Scores : n <= AsNumber(op.ret)
  /\ (op.name = "get_min_score" /\ ScoresAreNumbers)
       => \A n \in Scores : AsNumber(op.ret) <= n

IsAggregate == op.name \in {"get_max_score", "get_min_score", "get_avg_score"}

\* C10: each aggregate returns None when the table has no rows, and also when
\* it has rows but no value of the subject column is usable as a number.
C10_AbsentResult ==
  (/\ IsAggregate
   /\ \A v \in ColumnValues(table, op.subject) : ~Usable(v))
    => op.ret = None

-----------------------------------------------------------------------------
(* Further properties of update_student *)

\* C11: update_student with an id that is not in the table, or with the empty
\* id, returns False whatever the updates are and leaves every row as it was;
\* no row is created.
C11_UpdateOfAbsentId ==
  (/\ op.name = "update_student"
   /\ (op.id = T(<<>>) \/ ~Present(pre, op.id)))
    => /\ op.exc = ""
       /\ op.ret = Bool(FALSE)
       /\ ~op.wrote
       /\ table = pre

\* An update that differs from everything stored has been refused for an id
\* absent from a table that holds other rows.
C11_Witness ==
  /\ op.name = "update_student"
  /\ op.id # T(<<>>)
  /\ ~Present(pre, op.id)
  /\ pre # <<>>
  /\ DictHas(op.data, English)
  /\ op.ret = Bool(FALSE)

\* C12: no update_student call changes the ID of an existing row: every row
\* keeps, position by position, the ID it had before the call.
C12_IdImmutable ==
  op.name = "update_student"
    => /\ Len(table) = Len(pre)
       /\ \A i \in 1..Len(pre) : table[i][ID] = pre[i][ID]

-----------------------------------------------------------------------------
(* Further properties of parse_data *)

IsParse == op.name \in {"parse_data", "parse_fresh"}

\* The header fields of a file and the values of its data lines, as parse_data
\* splits them.
HeaderOf(text) ==
  Split(Strip(IF FileLines(text) = <<>> THEN <<>> ELSE FileLines(text)[1]),
        "\t")

ValuesOf(text, i) == Split(Strip(FileLines(text)[i]), "\t")

DataLines(text) == 2..Len(FileLines(text))

\* Some data line has fewer values than the header has columns.
HasShortLine(text) ==
  \E i \in DataLines(text) : Len(ValuesOf(text, i)) < Len(HeaderOf(text))

\* Some data line is left without a value for one of the nine columns.
LosesColumn(text) ==
  \E i \in DataLines(text) :
    \E c \in ColumnSet :
      \A k \in 1..Len(HeaderOf(text)) :
        HeaderOf(text)[k] = c => k > Len(ValuesOf(text, i))

\* C13 as stated: parse_data of a file with a line that has fewer values than
\* the header has columns drops the missing fields and completes without
\* raising.
C13_ShortLineTolerated ==
  (IsParse /\ HasShortLine(op.text)) => op.exc = ""

\* C13 as amended: the missing trailing fields are dropped by the pairing;
\* parse_data completes without raising only when none of the nine columns
\* is among the dropped fields, and raises KeyError otherwise.
C13_ShortLineOutcome ==
  (IsParse /\ HasShortLine(op.text))
    => op.exc = IF LosesColumn(op.text) THEN "KeyError" ELSE ""

\* A file with a short line has been parsed and the call raised KeyError.
C13_Witness ==
  /\ op.name = "parse_data"
  /\ HasShortLine(op.text)
  /\ LosesColumn(op.text)
  /\ op.exc = "KeyError"

\* A file with a line shorter than its header has been parsed without error.
C13_Tolerated ==
  /\ op.name = "parse_data"
  /\ HasShortLine(op.text)
  /\ op.exc = ""
  /\ table # pre

-----------------------------------------------------------------------------
(* Connections *)

\* C14: every operation of the store closes the connection it opened on every
\* exit path: once a call has completed, no connection it opened is open.
C14_ConnectionsReleased == leaked = 0

\* C15: when parse_data raises on some line after earlier lines of the file
\* were inserted, none of the rows of that call remain: the table is as it
\* was before the call.
C15_ImportAllOrNothing ==
  (op.name = "parse_data" /\ op.exc # "") => table = pre

\* parse_data has raised after it inserted a row whose ID was new.
C15_Witness ==
  /\ op.name = "parse_data"
  /\ op.exc = "KeyError"
  /\ op.wrote
  /\ \E i \in DataLines(op.text) :
       /\ Len(ValuesOf(op.text, i)) = Len(Columns)
       /\ ~Present(pre, Str(ValuesOf(op.text, i)[1]))

-----------------------------------------------------------------------------
(* Concurrent inserts *)

\* Both concurrent calls have ended; they carried the same ID, which was not
\* in the table when they started.
RaceOver ==
  /\ \A p \in Callers : race.pc[p] = "done"
  /\ DictAt(race.data["A"], ID) = DictAt(race.data["B"], ID)
  /\ ~Present(pre, DictAt(race.data["A"], ID))

\* The row a record describes.
RowOf(d) == [c \in ColumnSet |-> IF DictHas(d, c) THEN DictAt(d, c) ELSE None]

\* C16: of two concurrent insert_student calls with the same absent ID, in
\* every interleaving exactly one succeeds and the other fails with
\* IntegrityError; the table ends with exactly one row for that ID, holding
\* the values of the successful call, and its other rows as they were.
C16_OneWinner ==
  RaceOver
    => \E w \in Callers :
         /\ race.exc[w] = ""
         /\ \A l \in Callers \ {w} : race.exc[l] = "IntegrityError"
         /\ table = Append(pre, RowOf(race.data[w]))

\* Both calls passed the existence check before either inserted, and the
\* loser's INSERT was refused by the table; the two records differ.
C16_Witness ==
  /\ RaceOver
  /\ \A p \in Callers : ~race.seen[p]
  /\ race.data["A"] # race.data["B"]
  /\ \E l \in Callers : race.exc[l] = "IntegrityError"
  /\ pre # <<>>

====
